---- MODULE Spec2Model ----
(***************************************************************************)
(* Model of the availability-polling and notification loop of src/App.js.  *)
(*                                                                         *)
(* The App component keeps the displayed counts (spots, handicapSpots) and *)
(* the geofence flag isInside as React state.  fetchSpots is an async      *)
(* function with three suspension points (the two feed requests and the    *)
(* push send); several invocations may be in flight at once, started by    *)
(* the periodic-fetch effect (once at mount, then every 10 s), by the      *)
(* geofence first-visit callback and by the background-fetch task.         *)
(* JavaScript runs each continuation up to its next await without          *)
(* interruption, so every action below is one such continuation.           *)
(***************************************************************************)
EXTENDS Integers, Sequences, FiniteSets, TLC

\* ---------------------------------------------------------------- bounds
MaxInFlight == 2      \* fetchSpots invocations that may overlap
MaxCount == 1         \* largest count a feed body carries
MaxRuns == 2          \* consecutive background runs compared for idempotence

\* ------------------------------------------------------------- JS values
Num(n) == [t |-> "number", v |-> n]
Undefined == [t |-> "undefined", v |-> 0]

\* what data.free_spots can evaluate to on a body that parsed: undefined
\* when the field is absent, otherwise the number the body carries
FieldVals == {Undefined} \cup {Num(n) : n \in 0..MaxCount}

\* a feed response: fetch() rejects, the body does not parse, or it parses
Responses ==
  {[kind |-> k, field |-> Undefined] : k \in {"reject", "badjson"}}
    \cup {[kind |-> "json", field |-> f] : f \in FieldVals}

IsFail(r) == r.kind # "json"

VARIABLES
  spots,          \* useState(0): displayed general count
  handicapSpots,  \* useState(0): displayed accessible count
  isInside,       \* useState(false): InsideState reported by the monitor
  inv,            \* the fetchSpots invocations in flight, oldest first
  lastCommit,     \* history: the latest setSpots/setHandicapSpots step
  idem            \* background-task runs: scripted responses, snapshots

vars == <<spots, handicapSpots, isInside, inv, lastCommit, idem>>

RemoveAt(s, i) == SubSeq(s, 1, i - 1) \o SubSeq(s, i + 1, Len(s))

\* let spots = 0; let handicapSpots = 0;
InitialLocal == Num(0)

\* .then(text => JSON.parse(text)).then(data => { spots = data.free_spots })
\* .catch(error => console.error(...)): a failure leaves the local as it was
ParseCount(local, r) == IF r.kind = "json" THEN r.field ELSE local

\* the .catch handler ends the chain: the awaited promise always fulfils.
\* (AfterGeneralAbort is the chain without its .catch: a failure would reject
\* the invocation.)
AfterGeneralAbort(r) == IF IsFail(r) THEN "rejected" ELSE "handicap"
AfterGeneral(r) == "handicap"

\* an invocation that started after i has already written its counts (it is
\* still awaiting its push send)
WroteBefore(i) == \E j \in (i + 1)..Len(inv) : inv[j].pc = "push"

\* setSpots(spots); setHandicapSpots(handicapSpots);
\* SetCounts is what the code does.  The three before it are faulty variants:
\* dropping a response that arrives after a later one, writing only the
\* general count, and adding to the displayed count instead of replacing it.
SetCountsDiscardStale(i, h) ==
  IF WroteBefore(i) THEN <<spots, handicapSpots>> ELSE <<inv[i].spots, h>>
SetCountsGeneralOnly(i, h) == <<inv[i].spots, handicapSpots>>
SetCountsAccumulate(i, h) ==
  <<IF spots.t = "number" /\ inv[i].spots.t = "number"
      THEN Num(spots.v + inv[i].spots.v) ELSE inv[i].spots, h>>
SetCounts(i, h) == <<inv[i].spots, h>>

\* try { await fetchSpots(); return NewData } catch (err) { return Failed }
TaskReturn(rejected) == IF rejected THEN "Failed" ELSE "NewData"

\* ------------------------------------------------------------ fetchSpots
\* entry of fetchSpots up to the first await; closure is the isInside of the
\* render whose fetchSpots the caller holds
fetchSpots(src, closure) ==
  /\ Len(inv) < MaxInFlight
  /\ inv' = Append(inv, [pc |-> "general", src |-> src, isInside |-> closure,
                         spots |-> InitialLocal,
                         handicapSpots |-> InitialLocal])

\* the general-spots request settles; the handicap request is issued
GeneralSettled(i, r) ==
  /\ inv[i].pc = "general"
  /\ inv' = IF AfterGeneral(r) = "rejected"
              THEN RemoveAt(inv, i)
              ELSE [inv EXCEPT ![i].pc = AfterGeneral(r),
                               ![i].spots = ParseCount(@, r)]
  /\ UNCHANGED <<spots, handicapSpots, isInside, lastCommit>>

\* the handicap request settles; the counts are written and, if the closure
\* says inside, schedulePushNotification is called with them and awaited.
\* The locals are not read after that call.
HandicapSettled(i, r) ==
  /\ inv[i].pc = "handicap"
  /\ LET h == ParseCount(inv[i].handicapSpots, r)
         shown == SetCounts(i, h)
     IN
       /\ spots' = shown[1]
       /\ handicapSpots' = shown[2]
       /\ lastCommit' = [pair |-> <<inv[i].spots, h>>, late |-> WroteBefore(i)]
       /\ inv' = IF inv[i].isInside
                   THEN [inv EXCEPT ![i].pc = "push",
                                    ![i].spots = InitialLocal]
                   ELSE RemoveAt(inv, i)
  /\ UNCHANGED isInside

\* await schedulePushNotification(...) settles: there is no try/catch around
\* it in fetchSpots, so a rejection rejects the invocation
PushSettled(i, ok) ==
  /\ inv[i].pc = "push"
  /\ inv' = RemoveAt(inv, i)
  /\ UNCHANGED <<spots, handicapSpots, isInside, lastCommit>>

\* -------------------------------------------------------- geofence monitor
\* a location sample that changes the state: the new state is reported and,
\* on an entry, the first-visit callback starts fetchSpots.  (The first sample
\* is reported too, but setIsInside(false) on the initial false changes
\* nothing.)  Both effects that register callbacks run once at mount, so the
\* fetchSpots they hold is the one of the first render (isInside = false).
Sample(inside) ==
  /\ inside # isInside
  /\ isInside' = inside
  /\ IF inside THEN fetchSpots("geofence", FALSE) ELSE UNCHANGED inv
  /\ UNCHANGED <<spots, handicapSpots, lastCommit>>

\* ------------------------------------------------------------------ actions
\* setInterval(fetchSpots, 10000) holds the fetchSpots of the first render
TimerTick ==
  /\ fetchSpots("timer", FALSE)
  /\ UNCHANGED <<spots, handicapSpots, isInside, lastCommit, idem>>

\* defineTask runs on every render, so the task holds the latest fetchSpots
BackgroundFetchTask ==
  /\ fetchSpots("background", isInside)
  /\ UNCHANGED <<spots, handicapSpots, isInside, lastCommit, idem>>

LocationSample == \E inside \in BOOLEAN : Sample(inside) /\ UNCHANGED idem

GeneralResponse ==
  \E i \in 1..Len(inv), r \in Responses :
    GeneralSettled(i, r) /\ UNCHANGED idem

HandicapResponse ==
  \E i \in 1..Len(inv), r \in Responses :
    HandicapSettled(i, r) /\ UNCHANGED idem

PushResult ==
  \E i \in 1..Len(inv), ok \in BOOLEAN : PushSettled(i, ok) /\ UNCHANGED idem

NoCommit == [pair |-> <<Num(0), Num(0)>>, late |-> FALSE]
NoScript == [r1 |-> [kind |-> "reject", field |-> Undefined],
             r2 |-> [kind |-> "reject", field |-> Undefined], after |-> <<>>]

\* the state once the mount effects have run: fetchSpots() of line 111 is in
\* flight, the monitor is registered and has not yet delivered a sample
Init ==
  /\ spots = Num(0)
  /\ handicapSpots = Num(0)
  /\ isInside = FALSE
  /\ inv = <<[pc |-> "general", src |-> "mount", isInside |-> FALSE,
              spots |-> InitialLocal, handicapSpots |-> InitialLocal]>>
  /\ lastCommit = NoCommit
  /\ idem = NoScript

Next ==
  \/ TimerTick
  \/ BackgroundFetchTask
  \/ LocationSample
  \/ GeneralResponse
  \/ HandicapResponse
  \/ PushResult

Spec == Init /\ [][Next]_vars

\* ------------------------------------------- the background task, re-invoked
\* The platform invokes the task callback again and again; here the runs
\* follow one another, every run receives the same two feed responses
\* (idem.r1, idem.r2), and the state each run leaves is recorded in
\* idem.after, whose first entry is the state before the first run.
Snapshot(s, h, b, result, push) ==
  [spots |-> s, handicapSpots |-> h, isInside |-> b,
   result |-> result, push |-> push]

Returned(rejected, push) ==
  [idem EXCEPT !.after =
     Append(@, Snapshot(spots', handicapSpots', isInside',
                        TaskReturn(rejected), push))]

Shown == FieldVals \cup {InitialLocal}

InitTask ==
  /\ spots \in Shown
  /\ handicapSpots \in Shown
  /\ isInside \in BOOLEAN
  /\ inv = <<>>
  /\ lastCommit = [pair |-> <<spots, handicapSpots>>, late |-> FALSE]
  /\ \E r1 \in Responses, r2 \in Responses :
       idem = [r1 |-> r1, r2 |-> r2,
               after |-> <<Snapshot(spots, handicapSpots, isInside,
                                    "none", "none")>>]

TaskRun ==
  /\ inv = <<>>
  /\ Len(idem.after) <= MaxRuns
  /\ fetchSpots("background", isInside)
  /\ UNCHANGED <<spots, handicapSpots, isInside, lastCommit, idem>>

TaskGeneral ==
  \E i \in 1..Len(inv) :
    /\ GeneralSettled(i, idem.r1)
    /\ idem' = IF Len(inv') < Len(inv) THEN Returned(TRUE, "none") ELSE idem

TaskHandicap ==
  \E i \in 1..Len(inv) :
    /\ HandicapSettled(i, idem.r2)
    /\ idem' = IF Len(inv') < Len(inv) THEN Returned(FALSE, "none") ELSE idem

TaskPush ==
  \E i \in 1..Len(inv), ok \in BOOLEAN :
    /\ PushSettled(i, ok)
    /\ idem' = Returned(~ok, IF ok THEN "ok" ELSE "rejected")

NextTask ==
  \/ TaskRun
  \/ TaskGeneral
  \/ TaskHandicap
  \/ TaskPush

SpecTask == InitTask /\ [][NextTask]_vars

\* ------------------------------------------------------------------ claims
Runs == 2..Len(idem.after)

\* C1: after a background run, a sub-count whose request failed shows the
\* value it showed before the run, and a sub-count whose request succeeded
\* shows the fetched value.
ClaimC1 ==
  \A k \in Runs :
    /\ idem.after[k].spots =
         IF IsFail(idem.r1) THEN idem.after[k - 1].spots ELSE idem.r1.field
    /\ idem.after[k].handicapSpots =
         IF IsFail(idem.r2) THEN idem.after[k - 1].handicapSpots
         ELSE idem.r2.field

\* C2: whenever fetchSpots calls schedulePushNotification, the InsideState
\* last reported by the geofence monitor is true at that moment.
ClaimC2 ==
  [][\A i \in 1..Len(inv), r \in Responses :
       HandicapSettled(i, r) /\ Len(inv') = Len(inv) /\ inv'[i].pc = "push"
         => isInside]_vars

\* C3: a timer-started fetchSpots that writes its counts while InsideState
\* is true goes on to call schedulePushNotification.
ClaimC3 ==
  [][\A i \in 1..Len(inv), r \in Responses :
       HandicapSettled(i, r) /\ inv[i].src = "timer" /\ isInside
         => Len(inv') = Len(inv) /\ inv'[i].pc = "push"]_vars

\* C4: a geofence entry starts fetchSpots at once; when that invocation
\* completes it writes the counts it fetched and, if the user is inside at
\* that moment, calls schedulePushNotification.
ClaimC4 ==
  [][/\ ~isInside /\ isInside'
          => /\ Len(inv') = Len(inv) + 1
             /\ inv'[Len(inv')].src = "geofence"
             /\ inv'[Len(inv')].pc = "general"
     /\ \A i \in 1..Len(inv), r \in Responses :
          HandicapSettled(i, r) /\ inv[i].src = "geofence"
            => /\ spots' = inv[i].spots
               /\ handicapSpots' = ParseCount(inv[i].handicapSpots, r)
               /\ isInside => Len(inv') = Len(inv) /\ inv'[i].pc = "push"]_vars

\* C5: both displayed counts are non-negative integers in every state.
NonNegInt(x) == x.t = "number" /\ x.v >= 0
ClaimC5 == NonNegInt(spots) /\ NonNegInt(handicapSpots)

ThmC7 ==
  /\ [](\A k \in Runs :
          idem.after[k].result = "Failed" => idem.after[k].push = "rejected")
  /\ [][\A i \in 1..Len(inv), r \in Responses :
          GeneralSettled(i, r)
            => Len(inv') = Len(inv) /\ inv'[i].pc = "handicap"]_vars

\* a background run whose two requests both failed returned NewData
WitnessC7 ==
  /\ IsFail(idem.r1) /\ IsFail(idem.r2)
  /\ \E k \in Runs : idem.after[k].result = "NewData"

\* C8: a rejected push send is swallowed: the background task whose
\* fetchSpots attempted the send does not return Failed.
ClaimC8 ==
  \A k \in Runs :
    idem.after[k].push = "rejected" => idem.after[k].result = "NewData"

\* C9: running the background task again with the same two responses leaves
\* the displayed counts and InsideState as the first run left them, and no
\* run changes InsideState.
ThmC9 ==
  \A k \in Runs :
    /\ idem.after[k].isInside = idem.after[1].isInside
    /\ k > 2 => /\ idem.after[k].spots = idem.after[2].spots
                /\ idem.after[k].handicapSpots = idem.after[2].handicapSpots

\* the first run changed what is shown and a second run has completed
WitnessC9 ==
  /\ Len(idem.after) >= 3
  /\ idem.after[2].spots # idem.after[1].spots
  /\ idem.after[2].handicapSpots # idem.after[1].handicapSpots

\* C10: the displayed pair is the initial (0, 0) or the pair one single
\* invocation computed; counts of two invocations are never shown together.
ThmC10 == <<spots, handicapSpots>> = lastCommit.pair

\* an invocation has written while another, holding a different general
\* count, is still waiting for its handicap response
WitnessC10 ==
  /\ lastCommit.pair # <<Num(0), Num(0)>>
  /\ \E j \in 1..Len(inv) :
       inv[j].pc = "handicap" /\ inv[j].spots # spots
====
